---- MODULE Spec2Model ----
(***************************************************************************)
(* Batch domain enrichment: the in-memory job table (JobManager), the      *)
(* per-row adapter (CSVProcessor) and the enrichment engine                *)
(* (DomainEnrichmentService), run on one cooperative event loop.           *)
(*                                                                         *)
(* A process_job coroutine holds the event loop from the moment it is      *)
(* resumed until its next await; `running` names the task that holds it.   *)
(* Every other handler (upload, status read, download, eviction) runs only *)
(* while no task holds the loop.                                           *)
(***************************************************************************)
EXTENDS Integers, Sequences, FiniteSets, TLC

(* ------------------------------ bounds -------------------------------- *)
MaxJobs == 2
MaxRows == 2
MaxTasks == 2
MaxClock == 1
MaxCalls == 2
MaxQueries == 2
MaxColumns == 3
MaxText == 4
MaxSuffixes == 3

(* --------------------------- values ----------------------------------- *)
None == "None"
NaN == "NaN"
(* None where a column name (a character sequence) is expected *)
NoColumn == << >>
(* None where a location string is expected; a location string is kept as  *)
(* the sequence of the pieces that ', '.join glues together.               *)
NoLocation == << >>
(* None where a timestamp is expected *)
NoTime == -1

PENDING == "pending"
PROCESSING == "processing"
COMPLETED == "completed"
FAILED == "failed"

JobStatus == {PENDING, PROCESSING, COMPLETED, FAILED}

(* Cells of an input table: a missing value, a whitespace-only string, a   *)
(* company name, a location.                                               *)
BlankCell == "  "
NameCell == "Acme Corp"
LocCell == "Austin, TX"

(* str(x): a missing value prints as "nan". *)
Str(x) == IF x = NaN THEN "nan" ELSE x

(* s.strip() *)
Strip(s) == IF s = BlankCell THEN "" ELSE s

(* pd.isna(x) *)
IsNa(x) == x = NaN

(* Column names are character sequences, so that the keyword search of     *)
(* detect_columns is a real substring test.                                *)
ColCompany == <<"C", "o", "m", "p", "a", "n", "y">>
ColLocation == <<"l", "o", "c", "a", "t", "i", "o", "n">>

LowerChar(c) == IF c = "C" THEN "c" ELSE IF c = "S" THEN "s" ELSE c

Lower(s) == [k \in 1..Len(s) |-> LowerChar(s[k])]

IsSubstr(p, s) ==
    \E k \in 0..(Len(s) - Len(p)) : SubSeq(s, k + 1, k + Len(p)) = p

company_name_patterns ==
    << <<"c", "o", "m", "p", "a", "n", "y">>,
       <<"c", "o", "m", "p", "a", "n", "y", "_", "n", "a", "m", "e">>,
       <<"n", "a", "m", "e">>,
       <<"b", "u", "s", "i", "n", "e", "s", "s", "_", "n", "a", "m", "e">>,
       <<"o", "r", "g", "a", "n", "i", "z", "a", "t", "i", "o", "n">>,
       <<"o", "r", "g">>,
       <<"f", "i", "r", "m">>,
       <<"e", "n", "t", "i", "t", "y">> >>

location_patterns ==
    << <<"l", "o", "c", "a", "t", "i", "o", "n">>,
       <<"a", "d", "d", "r", "e", "s", "s">>,
       <<"c", "i", "t", "y">>,
       <<"s", "t", "a", "t", "e">>,
       <<"c", "o", "u", "n", "t", "r", "y">>,
       <<"h", "e", "a", "d", "q", "u", "a", "r", "t", "e", "r", "s">>,
       <<"h", "q">>,
       <<"r", "e", "g", "i", "o", "n">>,
       <<"p", "l", "a", "c", "e">> >>

StatePatterns ==
    { <<"s", "t", "a", "t", "e">>,
      <<"p", "r", "o", "v", "i", "n", "c", "e">>,
      <<"r", "e", "g", "i", "o", "n">> }

combined_location == <<"combined_location">>

(* [col for col in df.columns if pattern in col.lower()], as the indices   *)
(* of the matching columns.                                                *)
Matches(columns, pattern) ==
    {k \in 1..Len(columns) : IsSubstr(pattern, Lower(columns[k]))}

Min(S) == CHOOSE x \in S : \A y \in S : x <= y

(* The first column matched by the first pattern that matches any column. *)
FirstPatternMatch(columns, patterns) ==
    LET hits == {p \in 1..Len(patterns) : Matches(columns, patterns[p]) # {}}
    IN  IF hits = {} THEN NoColumn
        ELSE columns[Min(Matches(columns, patterns[Min(hits)]))]

(* The cells pd.read_csv reads as numbers. *)
NumberCells == {ToString(n) : n \in 0..200}

(* df[col].dtype == 'object' and not df[col].isna().all(): a column is of  *)
(* dtype object when it holds a value that is neither missing nor a number. *)
IsTextColumn(df, col) ==
    \E i \in 1..Len(df.rows) :
        ~IsNa(df.rows[i][col]) /\ df.rows[i][col] \notin NumberCells

FirstTextColumn(df) ==
    LET ks == {k \in 1..Len(df.columns) : IsTextColumn(df, df.columns[k])}
    IN  IF ks = {} THEN NoColumn ELSE df.columns[Min(ks)]

detect_columns(df) ==
    LET byName == FirstPatternMatch(df.columns, company_name_patterns)
        company_name_col == IF byName # NoColumn THEN byName ELSE FirstTextColumn(df)
        byLoc == FirstPatternMatch(df.columns, location_patterns)
        city_cols == Matches(df.columns, <<"c", "i", "t", "y">>)
        state_cols == UNION {Matches(df.columns, s) : s \in StatePatterns}
        location_col ==
            IF byLoc # NoColumn THEN byLoc
            ELSE IF city_cols # {} /\ state_cols # {} THEN combined_location
            ELSE NoColumn
    IN  [company_name |-> company_name_col, location |-> location_col]

(* An uploaded file is what pd.read_csv makes of its bytes: the exception  *)
(* it raises ("" when it raises none) and the table it returns.  Bytes     *)
(* without any column raise EmptyDataError, malformed ones ParserError.    *)
NoTable == [columns |-> << >>, rows |-> << >>]

(* validate_csv: the message of the first failing check, or "ok". *)
validate_csv(file_content) ==
    IF file_content.error = "EmptyDataError" THEN "CSV file is empty or invalid"
    ELSE IF file_content.error = "ParserError" THEN "Error parsing CSV file"
    ELSE LET df == file_content.df
         IN  IF Len(df.rows) = 0 \/ Len(df.columns) = 0 THEN "CSV file is empty"
             ELSE LET company_col == detect_columns(df).company_name
                  IN  IF company_col = NoColumn
                         THEN "Could not detect company name column"
                      ELSE IF \A i \in 1..Len(df.rows) : IsNa(df.rows[i][company_col])
                         THEN "No valid company names found"
                      ELSE "ok"

(* prepare_location_string for a row *)
prepare_location_string(row, location_col, df) ==
    IF location_col = combined_location THEN
        LET city_cols == Matches(df.columns, <<"c", "i", "t", "y">>)
            state_cols == UNION {Matches(df.columns, s) : s \in StatePatterns}
            city == IF city_cols # {} /\ ~IsNa(row[df.columns[Min(city_cols)]])
                       THEN <<Strip(Str(row[df.columns[Min(city_cols)]]))>>
                       ELSE <<>>
            state == IF state_cols # {} /\ ~IsNa(row[df.columns[Min(state_cols)]])
                        THEN <<Strip(Str(row[df.columns[Min(state_cols)]]))>>
                        ELSE <<>>
            parts == city \o state
        IN  IF parts = <<>> THEN NoLocation ELSE parts
    ELSE IF location_col # NoColumn /\ ~IsNa(row[location_col])
        THEN <<Strip(Str(row[location_col]))>>
    ELSE NoLocation

(* ---------------------- the enrichment engine -------------------------- *)
(* What the outside world answers during one enrichment: whether the       *)
(* searches return any hit, how the adjudicator call ends, how the HTTPS   *)
(* and HTTP probes end, and the wall-clock time spent.                     *)
(*   ai:    "domain"     200, content is a JSON object naming a domain     *)
(*          "overrated"  200, content is a JSON object naming a domain     *)
(*                       with a confidence_score above 1                   *)
(*          "emptydomain" 200, content is a JSON object whose domain is    *)
(*                       the empty string                                  *)
(*          "null"       200, content is a JSON object with a null domain  *)
(*          "nonobject"  200, content is valid JSON but not an object      *)
(*          "badjson"    200, content is not JSON                          *)
(*          "non200"     any other status code                             *)
(*          "transport"  the request raises                                *)
(*   probe: "ok" status < 400, "bad" status >= 400, "raise" error/timeout  *)
AiOutcomes ==
    {"domain", "overrated", "emptydomain", "null", "nonobject", "badjson",
     "non200", "transport"}
ProbeOutcomes == {"ok", "bad", "raise"}

(* What the adjudicator answers when it names a domain, and the elapsed    *)
(* times a request can take (confidence in hundredths, time in ms).        *)
AdjudicatorReply == [primary_domain |-> "acme.com", confidence_score |-> 90]

OverratedReply == [primary_domain |-> "acme.com", confidence_score |-> 150]

EmptyDomainReply == [primary_domain |-> "", confidence_score |-> 0]
ElapsedValues == {7}

Oracles ==
    [hits : BOOLEAN, ai : AiOutcomes, https : ProbeOutcomes, http : ProbeOutcomes,
     elapsed : ElapsedValues]

(* The degraded analysis every failure branch returns. *)
NullAnalysis(reasoning) ==
    [is_dict |-> TRUE, primary_domain |-> None, confidence_score |-> 0,
     reasoning |-> reasoning]

analyze_results_with_ai(hits, ai) ==
    IF ~hits THEN NullAnalysis("No search results available")
    ELSE CASE ai = "domain" ->
                [is_dict |-> TRUE, primary_domain |-> AdjudicatorReply.primary_domain,
                 confidence_score |-> AdjudicatorReply.confidence_score,
                 reasoning |-> "adjudicated"]
           [] ai = "overrated" ->
                [is_dict |-> TRUE, primary_domain |-> OverratedReply.primary_domain,
                 confidence_score |-> OverratedReply.confidence_score,
                 reasoning |-> "adjudicated"]
           [] ai = "emptydomain" ->
                [is_dict |-> TRUE, primary_domain |-> EmptyDomainReply.primary_domain,
                 confidence_score |-> EmptyDomainReply.confidence_score,
                 reasoning |-> "adjudicated"]
           [] ai = "null" ->
                [is_dict |-> TRUE, primary_domain |-> None,
                 confidence_score |-> 0, reasoning |-> "adjudicated"]
           [] ai = "nonobject" ->
                [is_dict |-> FALSE, primary_domain |-> None,
                 confidence_score |-> 0, reasoning |-> ""]
           [] ai = "badjson" -> NullAnalysis("Failed to parse AI response")
           [] ai = "non200" -> NullAnalysis("AI API error")
           [] ai = "transport" -> NullAnalysis("Error")

(* A verification that reports a domain reached over HTTP alone as        *)
(* verified.                                                               *)
verify_domain_HttpAsVerified(https, http) ==
    CASE https = "ok" -> "verified"
      [] https = "bad" -> "inaccessible"
      [] https = "raise" ->
            CASE http = "ok" -> "verified"
              [] http = "bad" -> "inaccessible"
              [] http = "raise" -> "unreachable"

(* verify_domain: the status for the outcome of the HTTPS probe and, when  *)
(* that probe raised, of the HTTP probe.                                   *)
verify_domain(https, http) ==
    CASE https = "ok" -> "verified"
      [] https = "bad" -> "inaccessible"
      [] https = "raise" ->
            CASE http = "ok" -> "http_only"
              [] http = "bad" -> "inaccessible"
              [] http = "raise" -> "unreachable"

(* `if domain_analysis.get('primary_domain')`: the truth value of the      *)
(* domain, false for None and for the empty string.                        *)
Truthy(domain) == domain \notin {None, ""}

(* process_company_request: [raised, value].  domain_analysis.get(...)     *)
(* raises when the adjudicator's JSON is not an object.                    *)
process_company_request(o) ==
    LET domain_analysis == analyze_results_with_ai(o.hits, o.ai)
        verification_status ==
            IF Truthy(domain_analysis.primary_domain)
                THEN verify_domain(o.https, o.http)
                ELSE "no_domain_found"
    IN  IF ~domain_analysis.is_dict
            THEN [raised |-> TRUE, value |-> None]
            ELSE [raised |-> FALSE,
                  value |-> [primary_domain |-> domain_analysis.primary_domain,
                             confidence_score |-> domain_analysis.confidence_score,
                             verification_status |-> verification_status,
                             processing_time_ms |-> o.elapsed]]

(* ------------------------- row results -------------------------------- *)
SimpleDomainResponse(domain, confidence, status, ms) ==
    [primary_domain |-> domain, confidence_score |-> confidence,
     verification_status |-> status, processing_time_ms |-> ms]

(* process_single_row with the engine's failure reported as a row without *)
(* a domain instead of as an error.                                        *)
process_single_row_Masked(company_name, location, o) ==
    LET full_response == process_company_request(o)
    IN  IF full_response.raised
            THEN SimpleDomainResponse(None, 0, "no_domain_found", 0)
            ELSE SimpleDomainResponse(full_response.value.primary_domain,
                                      full_response.value.confidence_score,
                                      full_response.value.verification_status,
                                      full_response.value.processing_time_ms)

(* process_single_row: the engine's result narrowed to the four fields, or *)
(* the fallback result when the engine raises.  The address parsed from    *)
(* the location only shapes the search queries; the outcome of the         *)
(* external calls is given by o.                                           *)
process_single_row(company_name, location, o) ==
    LET full_response == process_company_request(o)
    IN  IF full_response.raised
            THEN SimpleDomainResponse(None, 0, "error", 0)
            ELSE SimpleDomainResponse(full_response.value.primary_domain,
                                      full_response.value.confidence_score,
                                      full_response.value.verification_status,
                                      full_response.value.processing_time_ms)

(* prepare_output_csv: the header (original columns plus the four result   *)
(* columns) followed by one line per row of the table; assigning a column  *)
(* of another length than the table raises.                                *)
ResultColumns ==
    << <<"p", "r", "i", "m", "a", "r", "y", "_", "d", "o", "m", "a", "i", "n">>,
       <<"c", "o", "n", "f", "i", "d", "e", "n", "c", "e", "_", "s", "c", "o", "r", "e">>,
       <<"v", "e", "r", "i", "f", "i", "c", "a", "t", "i", "o", "n", "_",
         "s", "t", "a", "t", "u", "s">>,
       <<"p", "r", "o", "c", "e", "s", "s", "i", "n", "g", "_", "t", "i", "m", "e",
         "_", "m", "s">> >>

OutputRaises(df, results) == Len(results) # Len(df.rows)

Range(f) == {f[k] : k \in DOMAIN f}

(* output_df[name] = ...: a result column is appended, unless the table    *)
(* has a column of that name already, which the assignment overwrites.     *)
OutputColumns(df) ==
    df.columns \o SelectSeq(ResultColumns, LAMBDA c : c \notin Range(df.columns))

(* A rendering that lists the results last to first. *)
prepare_output_csv_Reversed(df, results) ==
    << [header |-> OutputColumns(df)] >> \o
    [i \in 1..Len(df.rows) |->
        [row |-> df.rows[i], result |-> results[Len(results) + 1 - i]]]

prepare_output_csv(df, results) ==
    << [header |-> OutputColumns(df)] >> \o
    [i \in 1..Len(df.rows) |-> [row |-> df.rows[i], result |-> results[i]]]

(* What results_cache.get returns for a missing key. *)
NoCsv == << >>

(* ----------------------------- inputs --------------------------------- *)
Columns == <<ColCompany, ColLocation>>

Row(company, location) ==
    [c \in {ColCompany, ColLocation} |-> IF c = ColCompany THEN company ELSE location]

(* The rows a submitted table is built from: a named company with its      *)
(* location, a missing name, and a whitespace-only name without location.  *)
Rows == {Row(NameCell, LocCell), Row(NaN, LocCell), Row(BlankCell, NaN)}

SeqUpTo(S, n) == UNION {[1..k -> S] : k \in 0..n}

Tables == {[columns |-> Columns, rows |-> rs] : rs \in SeqUpTo(Rows, MaxRows)}

(* A table none of whose columns is named like a company column or holds *)
(* text: "id,ref" over one line of missing values.                         *)
ColId == <<"i", "d">>

ColRef == <<"r", "e", "f">>

UnnamedTable ==
    [columns |-> <<ColId, ColRef>>, rows |-> << [c \in {ColId, ColRef} |-> NaN] >>]

Parsed(df) == [error |-> "", df |-> df]

(* The files a caller uploads: those tables, and bytes pd.read_csv rejects. *)
Files ==
    {Parsed(df) : df \in Tables \cup {UnnamedTable}} \cup
    {[error |-> e, df |-> NoTable] : e \in {"EmptyDataError", "ParserError"}}

(* validate_csv of every file and detect_columns of every table, computed  *)
(* once.                                                                   *)
Validation == [file_content \in Files |-> validate_csv(file_content)]

Detected == [df \in {f.df : f \in Files} |-> detect_columns(df)]

(* `if not is_valid` in upload_csv_file, with a handler that accepts every *)
(* file.                                                                   *)
IsValidAlways(file_content) == TRUE

IsValid(file_content) == Validation[file_content] = "ok"

(* The external outcomes a row's enrichment is tried with: a verified      *)
(* domain, and an adjudicator reply that makes the engine raise.           *)
RowOracles ==
    { [hits |-> TRUE, ai |-> "domain", https |-> "ok", http |-> "ok", elapsed |-> 7],
      [hits |-> TRUE, ai |-> "nonobject", https |-> "ok", http |-> "ok", elapsed |-> 7] }

Exceptions == {"boom"}

(* The search endpoints: the configured one and the client's fallbacks.    *)
searxng_url == "https://searx.be"

fallback_instances == <<"https://searx.org", "https://searx.space">>

(* How one search request ends: 200 with results, 200 without any, another *)
(* status code, or a transport error or timeout.                           *)
SearchOutcomes == {"hits", "empty", "non200", "raise"}

(* ------------------------------ state --------------------------------- *)
VARIABLES
    job,            \* every job dict ever created, by job id
    jobs,           \* the keys of JobManager.jobs
    results_cache,  \* JobManager.results_cache
    tasks,          \* the process_job coroutines created so far
    running,        \* the task holding the event loop, 0 when it is free
    now,            \* the clock, in hours
    events,         \* history: per job and row, the calls made and the exceptions raised
    base_url,       \* SearXNGClient.base_url of the one shared search client
    calls,          \* the process_company_request coroutines started so far
    applied         \* the CSVProcessor function last called, its input and its value

vars ==
    <<job, jobs, results_cache, tasks, running, now, events, base_url, calls, applied>>

(* The state of the job table and of the enrichment engine. *)
jobVars == <<job, jobs, results_cache, tasks, running, now, events>>

engineVars == <<base_url, calls>>

csvVars == <<applied>>

(* No CSVProcessor function has been called. *)
Idle == [fn |-> "none"]

JobIds == 1..MaxJobs

(* A list object is named by the task whose local `results` it is; 0 names *)
(* the list create_job made, which nothing ever appends to.                *)
ListOf(ref) == IF ref = 0 THEN << >> ELSE tasks[ref].results

JobResults(j) == ListOf(job[j].results)

Put(f, k, v) == [x \in DOMAIN f \cup {k} |-> IF x = k THEN v ELSE f[x]]

Drop(f, ks) == [x \in DOMAIN f \ ks |-> f[x]]

Init ==
    /\ job = << >>
    /\ jobs = {}
    /\ results_cache = << >>
    /\ tasks = << >>
    /\ running = 0
    /\ now = 0
    /\ events = {}
    /\ base_url = searxng_url
    /\ calls = << >>
    /\ applied = Idle

(* -------------------------- JobManager -------------------------------- *)
NewJob(job_id, df, detected_columns) ==
    [id |-> job_id, status |-> PENDING, progress |-> 0, total |-> Len(df.rows),
     created_at |-> now, completed_at |-> NoTime, dataframe |-> df,
     detected_columns |-> detected_columns, results |-> 0, errors |-> << >>]

NewTask(job_id) ==
    [job_id |-> job_id, pc |-> "scheduled", index |-> 0, results |-> << >>,
     company_name |-> "", location |-> NoLocation, e |-> None]

(* create_job: a fresh id (uuid4) and a pending job under it. *)
create_job(df, detected_columns) ==
    LET job_id == Len(job) + 1
    IN  /\ job' = Append(job, NewJob(job_id, df, detected_columns))
        /\ jobs' = jobs \cup {job_id}

(* start_job_processing: asyncio.create_task(self.process_job(job_id)) *)
start_job_processing(job_id) ==
    tasks' = Append(tasks, NewTask(job_id))

(* completed_at.isoformat(), and f"/download/{job_id}" *)
NoText == << >>

IsoFormat(t) == <<"iso", t>>

DownloadUrl(job_id) == <<"/download/", job_id>>

get_job_status(job_id) ==
    IF job_id \notin jobs THEN [job_id |-> job_id, found |-> FALSE]
    ELSE [job_id |-> job_id, found |-> TRUE,
         status |-> job[job_id].status,
         progress |-> job[job_id].progress,
         total |-> job[job_id].total,
         completed_at |-> IF job[job_id].completed_at # NoTime
                             THEN IsoFormat(job[job_id].completed_at) ELSE NoText,
         download_url |-> IF job[job_id].status = COMPLETED
                             THEN DownloadUrl(job_id) ELSE NoText,
         errors |-> job[job_id].errors]

get_result_csv(job_id) ==
    IF job_id \notin jobs THEN NoCsv
    ELSE IF job[job_id].status # COMPLETED THEN NoCsv
    ELSE IF job_id \in DOMAIN results_cache THEN results_cache[job_id]
    ELSE NoCsv

(* ------------------------- process_job -------------------------------- *)
EmptyInputResult == SimpleDomainResponse(None, 0, "empty_input", 0)

ProcessingErrorResult == SimpleDomainResponse(None, 0, "processing_error", 0)

(* f"Error processing row {index + 1}: {str(e)}" *)
RowErrorMsg(row_number, e) == [kind |-> "row", n |-> row_number, text |-> e]

(* f"Job {job_id} failed: {str(e)}" *)
JobErrorMsg(job_id, e) == [kind |-> "job", n |-> job_id, text |-> e]

(* The emptiness test without the strip: a whitespace-only name counts as *)
(* a name.                                                                 *)
IsEmptyNameNaOnly(cell) == IsNa(cell)

(* pd.isna(row[company_col]) or not str(row[company_col]).strip() *)
IsEmptyName(cell) == IsNa(cell) \/ Strip(Str(cell)) = ""

(* process_job without the status assignment at its start. *)
MarkProcessingSkipped(jr) == jr

MarkProcessing(jr) == [jr EXCEPT !.status = PROCESSING]

(* An empty-name branch that leaves the progress counter alone. *)
CountEmptyRowUncounted(jr, t) == jr

(* The empty-name branch: the progress counter moves, the job's result     *)
(* list is not re-bound.                                                   *)
CountEmptyRow(jr, t) == [jr EXCEPT !.progress = @ + 1]

(* An enriched row that binds the list and leaves the counter alone. *)
CountRowUncounted(jr, t) == [jr EXCEPT !.results = t]

(* After an enriched row: the counter moves and job['results'] is bound to *)
(* the task's local list.                                                  *)
CountRow(jr, t) == [jr EXCEPT !.progress = @ + 1, !.results = t]

(* A per-row except branch that also fails the job. *)
CountFailedRowAborting(jr, t, row_number, e) ==
    [jr EXCEPT !.errors = Append(@, RowErrorMsg(row_number, e)),
               !.progress = @ + 1,
               !.results = t,
               !.status = FAILED]

(* The per-row except branch. *)
CountFailedRow(jr, t, row_number, e) ==
    [jr EXCEPT !.errors = Append(@, RowErrorMsg(row_number, e)),
               !.progress = @ + 1,
               !.results = t]

(* Completion that leaves the status alone. *)
MarkCompletedPending(jr) == jr

(* Completion without the timestamp. *)
MarkCompletedUnstamped(jr) == [jr EXCEPT !.status = COMPLETED]

MarkCompleted(jr) == [jr EXCEPT !.status = COMPLETED, !.completed_at = now]

(* An outer except branch that records no message. *)
MarkFailedSilently(jr, job_id, e) == [jr EXCEPT !.status = FAILED]

(* The outer except branch. *)
MarkFailed(jr, job_id, e) ==
    [jr EXCEPT !.status = FAILED, !.errors = Append(@, JobErrorMsg(job_id, e))]

(* A cache write that also throws away every other job's artifact. *)
CacheOutputAlone(job_id, output_csv) == [x \in {job_id} |-> output_csv]

(* Completion without the cache write. *)
CacheNothing(job_id, output_csv) == results_cache

(* self.results_cache[job_id] = output_csv *)
CacheOutput(job_id, output_csv) == Put(results_cache, job_id, output_csv)

(* The coroutine starts: it returns at once for a job id that is not in    *)
(* the table, else it sets the status and enters the row loop.             *)
ProcessJobStart(t) ==
    /\ running = 0
    /\ tasks[t].pc = "scheduled"
    /\ LET j == tasks[t].job_id
       IN  IF j \notin jobs
             THEN /\ tasks' = [tasks EXCEPT ![t].pc = "done"]
                  /\ UNCHANGED <<job, running>>
             ELSE /\ job' = [job EXCEPT ![j] = MarkProcessing(@)]
                  /\ tasks' = [tasks EXCEPT ![t].pc = "loop"]
                  /\ running' = t
    /\ UNCHANGED <<jobs, results_cache, now, events>>
    /\ UNCHANGED <<engineVars, csvVars>>

Event(job_id, row_number, what) == [job_id |-> job_id, row |-> row_number, what |-> what]

(* One pass of the row loop up to its await: an empty name is recorded on  *)
(* the spot, any other row builds its location and calls the row enricher, *)
(* which suspends the task in its first external call.                     *)
ProcessJobRow(t) ==
    /\ running = t
    /\ tasks[t].pc = "loop"
    /\ LET j == tasks[t].job_id
           df == job[j].dataframe
           company_col == job[j].detected_columns.company_name
           location_col == job[j].detected_columns.location
           i == tasks[t].index + 1
       IN  IF i > Len(df.rows)
             THEN /\ tasks' = [tasks EXCEPT ![t].pc = "render"]
                  /\ UNCHANGED <<job, running, events>>
           ELSE IF IsEmptyName(df.rows[i][company_col])
             THEN /\ tasks' = [tasks EXCEPT ![t].results = Append(@, EmptyInputResult),
                                            ![t].index = i]
                  /\ job' = [job EXCEPT ![j] = CountEmptyRow(@, t)]
                  /\ UNCHANGED <<running, events>>
           ELSE LET company_name == Strip(Str(df.rows[i][company_col]))
                    location == IF location_col # NoColumn
                                   THEN prepare_location_string(df.rows[i], location_col, df)
                                   ELSE NoLocation
                IN  /\ tasks' = [tasks EXCEPT ![t].pc = "await",
                                              ![t].company_name = company_name,
                                              ![t].location = location]
                    /\ events' = events \cup
                          ( {Event(j, i, "process_single_row")} \cup
                            IF location_col # NoColumn
                               THEN {Event(j, i, "prepare_location_string")}
                               ELSE {} )
                    /\ running' = 0
                    /\ UNCHANGED job
    /\ UNCHANGED <<jobs, results_cache, now>>
    /\ UNCHANGED <<engineVars, csvVars>>

(* The same pass when the code before the await raises (the location       *)
(* assembly of a named row): the per-row except branch records the row and *)
(* the loop goes on.                                                       *)
ProcessJobRowRaised(t) ==
    /\ running = t
    /\ tasks[t].pc = "loop"
    /\ LET j == tasks[t].job_id
           df == job[j].dataframe
           company_col == job[j].detected_columns.company_name
           location_col == job[j].detected_columns.location
           i == tasks[t].index + 1
       IN  /\ i <= Len(df.rows)
           /\ ~IsEmptyName(df.rows[i][company_col])
           /\ location_col # NoColumn
           /\ \E e \in Exceptions :
                 /\ tasks' = [tasks EXCEPT ![t].results = Append(@, ProcessingErrorResult),
                                           ![t].index = i]
                 /\ job' = [job EXCEPT ![j] = CountFailedRow(@, t, i, e)]
           /\ events' = events \cup
                 {Event(j, i, "prepare_location_string"), Event(j, i, "raised")}
    /\ UNCHANGED <<jobs, results_cache, running, now>>
    /\ UNCHANGED <<engineVars, csvVars>>

(* The awaited row enricher returns its result. *)
ProcessJobRowDone(t) ==
    /\ running = 0
    /\ tasks[t].pc = "await"
    /\ \E o \in RowOracles :
          LET j == tasks[t].job_id
              i == tasks[t].index + 1
              result == process_single_row(tasks[t].company_name, tasks[t].location, o)
          IN  /\ tasks' = [tasks EXCEPT ![t].results = Append(@, result),
                                        ![t].index = i,
                                        ![t].pc = "loop"]
              /\ job' = [job EXCEPT ![j] = CountRow(@, t)]
              /\ events' = events \cup
                    IF process_company_request(o).raised
                       THEN {Event(j, i, "engine_raised")} ELSE {}
    /\ running' = t
    /\ UNCHANGED <<jobs, results_cache, now>>
    /\ UNCHANGED <<engineVars, csvVars>>

(* After the loop: the output is rendered and cached and the job marked    *)
(* completed, or an exception (from the rendering, or any other fault      *)
(* there) reaches the outer except branch and the job is marked failed.    *)
ProcessJobFinish(t) ==
    /\ running = t
    /\ tasks[t].pc = "render"
    /\ \E fault \in {None} \cup Exceptions :
          LET j == tasks[t].job_id
              df == job[j].dataframe
              results == tasks[t].results
              e == IF OutputRaises(df, results) THEN "Length of values" ELSE fault
          IN  IF e = None
                THEN /\ results_cache' = CacheOutput(j, prepare_output_csv(df, results))
                     /\ job' = [job EXCEPT ![j] = MarkCompleted(@)]
                     /\ tasks' = [tasks EXCEPT ![t].pc = "done"]
                ELSE /\ job' = [job EXCEPT ![j] = MarkFailed(@, j, e)]
                     /\ tasks' = [tasks EXCEPT ![t].pc = "done", ![t].e = e]
                     /\ UNCHANGED results_cache
    /\ running' = 0
    /\ UNCHANGED <<jobs, now, events>>
    /\ UNCHANGED <<engineVars, csvVars>>

(* ----------------------- the other handlers --------------------------- *)
(* upload_csv_file with a table that passes validation: the job is created *)
(* and its background task started.                                        *)
UploadCsv(file_content) ==
    /\ running = 0
    /\ Len(job) < MaxJobs
    /\ Len(tasks) < MaxTasks
    /\ IsValid(file_content)
    /\ create_job(file_content.df, Detected[file_content.df])
    /\ start_job_processing(Len(job) + 1)
    /\ UNCHANGED <<results_cache, running, now, events>>
    /\ UNCHANGED <<engineVars, csvVars>>

(* upload_csv_file with a table that fails validation: the caller gets the *)
(* message, nothing is created.                                            *)
UploadRejected(file_content) ==
    /\ running = 0
    /\ ~IsValid(file_content)
    /\ UNCHANGED vars

(* The status and download reads change nothing; what they return is       *)
(* get_job_status and get_result_csv of the state they run in.             *)
GetJobStatus(job_id) ==
    /\ running = 0
    /\ get_job_status(job_id).job_id = job_id
    /\ UNCHANGED vars

GetResultCsv(job_id) ==
    /\ running = 0
    /\ get_result_csv(job_id) \in {NoCsv} \cup {results_cache[k] : k \in DOMAIN results_cache}
    /\ UNCHANGED vars

(* A sweep that also takes the jobs that are exactly max_age_hours old. *)
OldJobsInclusive(max_age_hours) ==
    {j \in jobs : now - job[j].created_at >= max_age_hours}

(* cleanup_old_jobs(max_age_hours): to_remove, then the two deletions *)
OldJobs(max_age_hours) == {j \in jobs : now - job[j].created_at > max_age_hours}

CleanupOldJobs(max_age_hours) ==
    /\ running = 0
    /\ jobs' = jobs \ OldJobs(max_age_hours)
    /\ results_cache' = Drop(results_cache, OldJobs(max_age_hours))
    /\ UNCHANGED <<job, tasks, running, now, events>>
    /\ UNCHANGED <<engineVars, csvVars>>

(* An hour passes. *)
Tick ==
    /\ now < MaxClock
    /\ now' = now + 1
    /\ UNCHANGED <<job, jobs, results_cache, tasks, running, events>>
    /\ UNCHANGED <<engineVars, csvVars>>

Next ==
    \/ \E file_content \in Files : UploadCsv(file_content)
    \/ \E file_content \in Files : UploadRejected(file_content)
    \/ \E t \in 1..Len(tasks) : ProcessJobStart(t)
    \/ \E t \in 1..Len(tasks) : ProcessJobRow(t)
    \/ \E t \in 1..Len(tasks) : ProcessJobRowRaised(t)
    \/ \E t \in 1..Len(tasks) : ProcessJobRowDone(t)
    \/ \E t \in 1..Len(tasks) : ProcessJobFinish(t)
    \/ \E j \in JobIds : GetJobStatus(j)
    \/ \E j \in JobIds : GetResultCsv(j)
    \/ \E a \in 0..MaxClock : CleanupOldJobs(a)
    \/ Tick

(* The application: jobs enter through upload_csv_file alone. *)
Spec == Init /\ [][Next]_vars

(* The steps of the task t, a coroutine of the event loop. *)
ProcessJob(t) ==
    /\ t \in 1..Len(tasks)
    /\ \/ ProcessJobStart(t)
       \/ ProcessJobRow(t)
       \/ ProcessJobRowRaised(t)
       \/ ProcessJobRowDone(t)
       \/ ProcessJobFinish(t)

(* The application on an event loop that runs every task that can run, and *)
(* whose external calls all return or fail: a task that can take a step    *)
(* eventually takes one.                                                   *)
SpecLive == Init /\ [][Next]_vars /\ \A t \in 1..MaxTasks : WF_vars(ProcessJob(t))

(* The JobManager called directly: create_job and start_job_processing are *)
(* separate public methods and may be called in any order, for any id.     *)
CreateJob(df) ==
    /\ running = 0
    /\ Len(job) < MaxJobs
    /\ create_job(df, Detected[df])
    /\ UNCHANGED <<results_cache, tasks, running, now, events>>
    /\ UNCHANGED <<engineVars, csvVars>>

StartJobProcessing(job_id) ==
    /\ running = 0
    /\ Len(tasks) < MaxTasks
    /\ start_job_processing(job_id)
    /\ UNCHANGED <<job, jobs, results_cache, running, now, events>>
    /\ UNCHANGED <<engineVars, csvVars>>

NextApi ==
    \/ \E df \in Tables : CreateJob(df)
    \/ \E j \in JobIds : StartJobProcessing(j)
    \/ \E t \in 1..Len(tasks) : ProcessJobStart(t)
    \/ \E t \in 1..Len(tasks) : ProcessJobRow(t)
    \/ \E t \in 1..Len(tasks) : ProcessJobRowRaised(t)
    \/ \E t \in 1..Len(tasks) : ProcessJobRowDone(t)
    \/ \E t \in 1..Len(tasks) : ProcessJobFinish(t)
    \/ \E j \in JobIds : GetJobStatus(j)
    \/ \E j \in JobIds : GetResultCsv(j)

SpecApi == Init /\ [][NextApi]_vars

(* ------------------- the engine, request by request -------------------- *)
(* A process_company_request coroutine, suspended in one external request: *)
(*   pc          "primary"  in search, the request sent to base_url        *)
(*               "fallback" in search, the request sent to a fallback      *)
(*               "ai"       the adjudicator request                        *)
(*               "https", "http"  the verification probes                  *)
(*               "done"     returned or raised                             *)
(*   query       the index of the query being searched                     *)
(*   fallback, original_url   the locals of the search call in progress     *)
(*   sent        history: the endpoints the search call in progress has    *)
(*               sent a request to                                         *)
(*   exhausted   history: the searches that found every endpoint failing   *)
(*   ai_calls, probes   history: adjudicator requests made, the schemes    *)
(*               probed; ai, https, http: how those requests ended         *)
NoResult ==
    [primary_domain |-> None, confidence_score |-> 0,
     verification_status |-> "", processing_time_ms |-> 0]

NewCall ==
    [pc |-> "primary", query |-> 1, fallback |-> 0, original_url |-> None,
     sent |-> << >>, exhausted |-> 0, all_search_results |-> 0,
     ai |-> None, ai_calls |-> 0, probes |-> << >>, https |-> None, http |-> None,
     primary_domain |-> None, confidence_score |-> 0,
     returned |-> FALSE, raised |-> FALSE, result |-> NoResult]

(* The query list of generate_search_queries, cut to MaxQueries queries. *)
search_queries == [q \in 1..MaxQueries |-> q]

(* _perform_search: the request goes to whatever base_url is right now. *)
PerformSearch(c, url) == [c EXCEPT !.sent = Append(@, url)]

(* The engine returns its result. *)
Return(c, domain, confidence, verification_status) ==
    [c EXCEPT !.pc = "done", !.returned = TRUE,
              !.result = [primary_domain |-> domain,
                          confidence_score |-> confidence,
                          verification_status |-> verification_status,
                          processing_time_ms |-> CHOOSE ms \in ElapsedValues : TRUE]]

(* An exception leaves process_company_request. *)
Raise(c) == [c EXCEPT !.pc = "done", !.raised = TRUE]

(* An adjudicator consulted even without any search result. *)
HasResultsAlways(all_search_results) == TRUE

(* `if not search_results` in analyze_results_with_ai, negated *)
HasResults(all_search_results) == all_search_results > 0

(* search() returned `hits` results: they are added to the collection and  *)
(* the next query is searched, its request going to `url`, the base_url    *)
(* left by this search; after the last query the results are adjudicated,  *)
(* or, without any result, the engine returns at once.                     *)
AfterSearch(c, hits, url) ==
    LET d == [c EXCEPT !.all_search_results = @ + hits,
                       !.fallback = 0, !.original_url = None, !.sent = << >>]
    IN  IF c.query < Len(search_queries)
            THEN PerformSearch([d EXCEPT !.pc = "primary", !.query = @ + 1], url)
        ELSE IF ~HasResults(d.all_search_results)
            THEN LET domain_analysis == analyze_results_with_ai(FALSE, "null")
                 IN  Return(d, domain_analysis.primary_domain,
                            domain_analysis.confidence_score, "no_domain_found")
        ELSE [d EXCEPT !.pc = "ai", !.ai_calls = @ + 1]

(* A search whose every endpoint failed raises instead of returning []. *)
SearchExhaustedRaising(c, url) == Raise([c EXCEPT !.exhausted = @ + 1])

(* "All SearXNG instances failed": search returns the empty list. *)
SearchExhausted(c, url) == AfterSearch([c EXCEPT !.exhausted = @ + 1], 0, url)

(* A caller invokes the engine: the queries are generated and the first    *)
(* search sends its request.                                               *)
ProcessCompanyRequest ==
    /\ Len(calls) < MaxCalls
    /\ calls' = Append(calls, PerformSearch(NewCall, base_url))
    /\ UNCHANGED base_url
    /\ UNCHANGED <<jobVars, csvVars>>

(* The k-th pass of the fallback loop: base_url is saved in original_url,  *)
(* set to the fallback, and the request sent; past the last fallback the   *)
(* search gives up.                                                        *)
TryFallback(c, k) ==
    IF k > Len(fallback_instances)
        THEN /\ calls' = [calls EXCEPT ![c] = SearchExhausted(@, base_url)]
             /\ UNCHANGED base_url
        ELSE /\ calls' = [calls EXCEPT ![c] =
                             PerformSearch([@ EXCEPT !.pc = "fallback",
                                                     !.fallback = k,
                                                     !.original_url = base_url],
                                           fallback_instances[k])]
             /\ base_url' = fallback_instances[k]

Hits(r) == IF r = "hits" THEN 1 ELSE 0

(* The request of the first attempt ends. *)
SearchResponse(c) ==
    /\ calls[c].pc = "primary"
    /\ \E r \in SearchOutcomes :
          IF r \in {"hits", "empty"}
             THEN /\ calls' = [calls EXCEPT ![c] = AfterSearch(@, Hits(r), base_url)]
                  /\ UNCHANGED base_url
             ELSE TryFallback(c, 1)
    /\ UNCHANGED <<jobVars, csvVars>>

(* The request of a fallback attempt ends: on success base_url is set back *)
(* to original_url, on failure the loop goes on to the next fallback.      *)
FallbackResponse(c) ==
    /\ calls[c].pc = "fallback"
    /\ \E r \in SearchOutcomes :
          IF r \in {"hits", "empty"}
             THEN /\ base_url' = calls[c].original_url
                  /\ calls' = [calls EXCEPT ![c] =
                                  AfterSearch(@, Hits(r), calls[c].original_url)]
             ELSE TryFallback(c, calls[c].fallback + 1)
    /\ UNCHANGED <<jobVars, csvVars>>

(* The adjudicator request ends; a domain it names is probed over HTTPS,   *)
(* and reading a field of a reply that is no JSON object raises.           *)
AiResponse(c) ==
    /\ calls[c].pc = "ai"
    /\ \E ai \in AiOutcomes :
          LET domain_analysis == analyze_results_with_ai(TRUE, ai)
          IN  calls' = [calls EXCEPT ![c] =
                 IF ~domain_analysis.is_dict
                     THEN Raise([@ EXCEPT !.ai = ai])
                 ELSE IF Truthy(domain_analysis.primary_domain)
                     THEN [@ EXCEPT !.pc = "https", !.ai = ai,
                                    !.probes = Append(@, "https"),
                                    !.primary_domain = domain_analysis.primary_domain,
                                    !.confidence_score = domain_analysis.confidence_score]
                 ELSE Return([@ EXCEPT !.ai = ai], domain_analysis.primary_domain,
                             domain_analysis.confidence_score, "no_domain_found")]
    /\ UNCHANGED base_url
    /\ UNCHANGED <<jobVars, csvVars>>

(* The HTTPS probe ends: a response of any status decides the result, an   *)
(* exception leads to the HTTP probe.                                      *)
HttpsResponse(c) ==
    /\ calls[c].pc = "https"
    /\ \E r \in ProbeOutcomes :
          calls' = [calls EXCEPT ![c] =
             IF r = "raise"
                 THEN [@ EXCEPT !.pc = "http", !.https = r,
                                !.probes = Append(@, "http")]
                 ELSE Return([@ EXCEPT !.https = r],
                             @.primary_domain, @.confidence_score,
                             verify_domain(r, r))]
    /\ UNCHANGED base_url
    /\ UNCHANGED <<jobVars, csvVars>>

(* The HTTP probe ends. *)
HttpResponse(c) ==
    /\ calls[c].pc = "http"
    /\ \E r \in ProbeOutcomes :
          calls' = [calls EXCEPT ![c] =
             Return([@ EXCEPT !.http = r],
                    @.primary_domain, @.confidence_score,
                    verify_domain(@.https, r))]
    /\ UNCHANGED base_url
    /\ UNCHANGED <<jobVars, csvVars>>

NextEngine ==
    \/ ProcessCompanyRequest
    \/ \E c \in 1..Len(calls) : SearchResponse(c)
    \/ \E c \in 1..Len(calls) : FallbackResponse(c)
    \/ \E c \in 1..Len(calls) : AiResponse(c)
    \/ \E c \in 1..Len(calls) : HttpsResponse(c)
    \/ \E c \in 1..Len(calls) : HttpResponse(c)

(* The engine and its shared search client, called by concurrent rows. *)
SpecEngine == Init /\ [][NextEngine]_vars

(* ---------------- the CSVProcessor functions, call by call ------------- *)
(* Headers a table may carry beside Company, location, id and ref. *)
ColCity == <<"C", "i", "t", "y">>

ColState == <<"S", "t", "a", "t", "e">>

ColPrimaryDomain == ResultColumns[1]

HeaderNames == {ColCompany, ColLocation, ColCity, ColState, ColRef, ColPrimaryDomain}

(* The value a cell under a header holds when it is not missing. *)
CellOf(col) ==
    CASE col = ColCompany -> NameCell
      [] col = ColLocation -> LocCell
      [] col = ColCity -> "Austin"
      [] col = ColState -> "TX"
      [] col = ColRef -> "17"
      [] col = ColPrimaryDomain -> "Acme"

Injective(f) == \A a, b \in DOMAIN f : f[a] = f[b] => a = b

Headers ==
    {h \in UNION {[1..n -> HeaderNames] : n \in 1..MaxColumns} : Injective(h)}

(* One-row tables over those headers, every cell present or missing. *)
HeaderTables ==
    UNION { { [columns |-> h,
               rows |-> << [c \in Range(h) |-> IF c \in present THEN CellOf(c) ELSE NaN] >>] :
              present \in SUBSET Range(h) } : h \in Headers }

(* Location strings: character sequences over a letter, the comma and the *)
(* blank; NoString is None where such a string is expected.                *)
LocChars == {"A", ",", " "}

NoString == <<None>>

LocationStrings == UNION {[1..n -> LocChars] : n \in 0..MaxText} \cup {NoString}

Unknown == <<"U", "n", "k", "n", "o", "w", "n">>

US == <<"U", "S">>

(* s.split(',') *)
RECURSIVE SplitComma(_)
SplitComma(s) ==
    LET commas == {k \in 1..Len(s) : s[k] = ","}
    IN  IF commas = {} THEN <<s>>
        ELSE <<SubSeq(s, 1, Min(commas) - 1)>> \o
             SplitComma(SubSeq(s, Min(commas) + 1, Len(s)))

(* s.strip() of a character sequence *)
StripText(s) ==
    LET inked == {k \in 1..Len(s) : s[k] # " "}
    IN  IF inked = {} THEN << >>
        ELSE SubSeq(s, Min(inked), CHOOSE k \in inked : \A m \in inked : m <= k)

CompanyAddress(city, state, country) == [city |-> city, state |-> state, country |-> country]

parse_location(location_str) ==
    IF location_str = NoString \/ location_str = << >>
        THEN CompanyAddress(Unknown, Unknown, US)
    ELSE LET split == SplitComma(location_str)
             parts == [k \in 1..Len(split) |-> StripText(split[k])]
         IN  IF Len(parts) >= 2
                THEN CompanyAddress(parts[1], parts[2],
                                    IF Len(parts) > 2 THEN parts[3] ELSE US)
             ELSE IF Len(parts) = 1
                THEN CompanyAddress(parts[1], Unknown, US)
             ELSE CompanyAddress(Unknown, Unknown, US)

(* What to_csv writes for a result field and read_csv reads back: nothing  *)
(* for None, the digits for a number, the text for a string.               *)
FormatCell(value) ==
    IF value = None THEN NaN ELSE value

(* pd.read_csv of a rendered artifact: its header and, per line, the       *)
(* table's cells with the result fields in the result columns.             *)
ReadOutputCsv(output_csv) ==
    LET header == output_csv[1].header
        Cell(line, c) ==
            CASE c = ResultColumns[1] -> FormatCell(line.result.primary_domain)
              [] c = ResultColumns[2] -> ToString(line.result.confidence_score)
              [] c = ResultColumns[3] -> line.result.verification_status
              [] c = ResultColumns[4] -> ToString(line.result.processing_time_ms)
              [] OTHER -> line.row[c]
    IN  [columns |-> header,
         rows |-> [i \in 1..(Len(output_csv) - 1) |->
                      [c \in Range(header) |-> Cell(output_csv[i + 1], c)]]]

(* The results process_job can record for the rows of a table. *)
RowResults(df, company_col) ==
    {rs \in [1..Len(df.rows) -> {EmptyInputResult, ProcessingErrorResult} \cup
                                {process_single_row(NameCell, NoLocation, o) : o \in RowOracles}] :
        \A i \in 1..Len(df.rows) :
            rs[i] = EmptyInputResult <=> IsEmptyName(df.rows[i][company_col])}

(* detect_columns is called on a table and, as process_job does for every  *)
(* row when a location column was detected, prepare_location_string.       *)
DetectColumns ==
    /\ applied = Idle
    /\ \E df \in HeaderTables :
          LET detected == detect_columns(df)
          IN  applied' =
                [fn |-> "detect_columns", df |-> df, detected |-> detected,
                 locations |->
                    [i \in 1..Len(df.rows) |->
                        IF detected.location # NoColumn
                           THEN prepare_location_string(df.rows[i], detected.location, df)
                           ELSE NoLocation]]
    /\ UNCHANGED <<jobVars, engineVars>>

(* parse_location is called on a location string. *)
ParseLocation ==
    /\ applied = Idle
    /\ \E location_str \in LocationStrings :
          applied' = [fn |-> "parse_location", location_str |-> location_str,
                      address |-> parse_location(location_str)]
    /\ UNCHANGED <<jobVars, engineVars>>

(* A valid table is rendered with results for its rows and the columns of  *)
(* the rendered table are detected again.                                  *)
RenderAndDetect ==
    /\ applied = Idle
    /\ \E df \in HeaderTables :
          /\ validate_csv(Parsed(df)) = "ok"
          /\ \E results \in RowResults(df, detect_columns(df).company_name) :
                LET output_csv == prepare_output_csv(df, results)
                IN  applied' =
                      [fn |-> "prepare_output_csv", df |-> df, results |-> results,
                       detected |-> detect_columns(df),
                       output |-> ReadOutputCsv(output_csv),
                       detected_again |-> detect_columns(ReadOutputCsv(output_csv))]
    /\ UNCHANGED <<jobVars, engineVars>>

(* The call is over. *)
Forget ==
    /\ applied # Idle
    /\ applied' = Idle
    /\ UNCHANGED <<jobVars, engineVars>>

NextCsv ==
    \/ DetectColumns
    \/ ParseLocation
    \/ RenderAndDetect
    \/ Forget

(* The CSVProcessor's pure functions, applied to every input in turn. *)
SpecCsv == Init /\ [][NextCsv]_vars

(* ------------------------- company names ------------------------------- *)
(* A company name is the sequence of its words, which single spaces        *)
(* separate: a base name followed by up to MaxSuffixes suffix words.       *)
suffixes ==
    <<"Inc", "Corp", "Corporation", "LLC", "Ltd", "Limited", "Co", "Company">>

BaseName == <<"Acme">>

CompanyNames ==
    {BaseName \o tail : tail \in SeqUpTo(Range(suffixes), MaxSuffixes)}

(* normalized.endswith(f' {suffix}'): the last word is the suffix and a    *)
(* space, so another word, comes before it.                                *)
EndsWith(normalized, suffix) ==
    /\ Len(normalized) >= 2
    /\ normalized[Len(normalized)] = suffix

(* normalized[:-len(suffix)-1] *)
CutSuffix(normalized) == SubSeq(normalized, 1, Len(normalized) - 1)

(* The loop over the suffix list, from the k-th suffix on: one test per    *)
(* suffix, in the order of the list.                                       *)
RECURSIVE StripSuffixes(_, _)
StripSuffixes(normalized, k) ==
    IF k > Len(suffixes) THEN normalized
    ELSE StripSuffixes(IF EndsWith(normalized, suffixes[k])
                          THEN CutSuffix(normalized) ELSE normalized,
                       k + 1)

normalize_company_name(name) == StripSuffixes(name, 1)

(* normalize_company_name is called on a company name. *)
NormalizeCompanyName ==
    /\ applied = Idle
    /\ \E name \in CompanyNames :
          applied' = [fn |-> "normalize_company_name", name |-> name,
                      normalized |-> normalize_company_name(name)]
    /\ UNCHANGED <<jobVars, engineVars>>

(* It is called again, on the name it returned. *)
NormalizeAgain ==
    /\ applied # Idle
    /\ applied.fn = "normalize_company_name"
    /\ applied' = [fn |-> "normalize_company_name twice", name |-> applied.name,
                   normalized |-> applied.normalized,
                   again |-> normalize_company_name(applied.normalized)]
    /\ UNCHANGED <<jobVars, engineVars>>

NextNames ==
    \/ NormalizeCompanyName
    \/ NormalizeAgain
    \/ Forget

(* normalize_company_name, applied to every name in turn. *)
SpecNames == Init /\ [][NextNames]_vars

(* ============================ properties ============================== *)
AllJobs == 1..Len(job)

AllTasks == 1..Len(tasks)

(* C1: whenever a status read can run (no task holds the event loop), the  *)
(* stored result list of every job in the table is as long as the job's    *)
(* progress counter.                                                       *)
ResultsMatchProgress ==
    running = 0 => \A j \in jobs : Len(JobResults(j)) = job[j].progress

(* C2: every completed job's stored result list is as long as its total.   *)
CompletedHasAllResults ==
    \A j \in AllJobs : job[j].status = COMPLETED => Len(JobResults(j)) = job[j].total

(* C3: a job is created pending, and a step changes a job's status only    *)
(* from pending to processing or from processing to completed or failed;   *)
(* so a completed or failed status is never left.                          *)
StatusSteps == {<<PENDING, PROCESSING>>, <<PROCESSING, COMPLETED>>, <<PROCESSING, FAILED>>}

OneRunPerJob ==
    \A j \in JobIds : Cardinality({t \in AllTasks : tasks[t].job_id = j}) <= 1

(* C5: a row whose processing raised inside the loop has the               *)
(* processing_error result (no domain, confidence 0, duration 0) at its    *)
(* position in the job's results, exactly one job-level message, and is    *)
(* counted in the progress; the loop goes on, and the job fails only by an *)
(* exception outside the row loop, else it ends completed with a result    *)
(* for every row.                                                          *)
RowFailureContained ==
    \A t \in AllTasks : \A ev \in events :
        (ev.what = "raised" /\ ev.job_id = tasks[t].job_id) =>
            LET j == tasks[t].job_id
                i == ev.row
            IN  /\ i <= Len(JobResults(j))
                /\ JobResults(j)[i] = SimpleDomainResponse(None, 0, "processing_error", 0)
                /\ Cardinality({k \in 1..Len(job[j].errors) :
                                   job[j].errors[k].kind = "row" /\ job[j].errors[k].n = i}) = 1
                /\ i <= job[j].progress
                /\ job[j].progress = tasks[t].index
                /\ job[j].status = FAILED => tasks[t].e # None
                /\ (tasks[t].pc = "done" /\ tasks[t].e = None) =>
                       /\ job[j].status = COMPLETED
                       /\ Len(JobResults(j)) = job[j].total

(* C5 witness: the first of two rows raised and the job completed. *)
RowFailureContainedWitness ==
    \E j \in AllJobs :
        /\ Event(j, 1, "raised") \in events
        /\ job[j].total = 2
        /\ job[j].status = COMPLETED

(* C6: a row whose company-name cell is missing or blank gets the          *)
(* empty_input result without a domain, whatever its location cell holds,  *)
(* and neither the location assembly nor the row enricher is called for it.*)
EmptyNameRowsSkipped ==
    \A t \in AllTasks :
        LET j == tasks[t].job_id
        IN  j \in AllJobs =>
            \A i \in 1..Len(job[j].dataframe.rows) :
                job[j].dataframe.rows[i][job[j].detected_columns.company_name]
                        \in {NaN, BlankCell} =>
                    /\ i <= tasks[t].index =>
                          /\ tasks[t].results[i].verification_status = "empty_input"
                          /\ tasks[t].results[i].primary_domain = None
                    /\ Event(j, i, "prepare_location_string") \notin events
                    /\ Event(j, i, "process_single_row") \notin events

(* C6 witness: a recorded row with a missing name and a location, and a    *)
(* recorded row with a blank name.                                         *)
EmptyNameRowsSkippedWitness ==
    \E t \in AllTasks :
        /\ tasks[t].index = 2
        /\ job[tasks[t].job_id].dataframe.rows = <<Row(NaN, LocCell), Row(BlankCell, NaN)>>

(* C7: a failed job has a job-level message that carries the text of the   *)
(* exception that failed it.                                               *)
FailedJobHasError ==
    \A j \in AllJobs :
        job[j].status = FAILED =>
            \E t \in AllTasks :
                /\ tasks[t].job_id = j
                /\ tasks[t].e # None
                /\ \E k \in 1..Len(job[j].errors) :
                      job[j].errors[k] = JobErrorMsg(j, tasks[t].e)

(* C7 witness: a job has failed. *)
FailedJobHasErrorWitness == \E j \in AllJobs : job[j].status = FAILED

(* C8: get_result_csv returns an artifact exactly for the ids that are in  *)
(* the job table with status completed, and what it returns is the output  *)
(* rendered from that job's table and results.                             *)
ResultCsvIffCompleted ==
    \A j \in JobIds :
        /\ get_result_csv(j) # NoCsv <=> (j \in jobs /\ job[j].status = COMPLETED)
        /\ get_result_csv(j) # NoCsv =>
              \E t \in AllTasks :
                  /\ tasks[t].job_id = j
                  /\ get_result_csv(j) = prepare_output_csv(job[j].dataframe, tasks[t].results)

(* C8 witness: a completed job in the table whose artifact is returned,    *)
(* beside an evicted job and its refused read.                             *)
ResultCsvIffCompletedWitness ==
    \E j, k \in AllJobs :
        /\ j \in jobs /\ job[j].status = COMPLETED /\ get_result_csv(j) # NoCsv
        /\ k \notin jobs /\ job[k].status = COMPLETED /\ get_result_csv(k) = NoCsv

(* C9: a status snapshot that reports completed has completed_at and a     *)
(* download URL; one that reports any other status has neither.            *)
SnapshotCompletedAt ==
    running = 0 =>
        \A j \in JobIds :
            LET snapshot == get_job_status(j)
            IN  snapshot.found =>
                    IF snapshot.status = COMPLETED
                       THEN snapshot.completed_at # NoText /\ snapshot.download_url # NoText
                       ELSE snapshot.completed_at = NoText /\ snapshot.download_url = NoText

(* C9 witness: a completed snapshot and a failed one can be read. *)
SnapshotCompletedAtWitness ==
    /\ running = 0
    /\ \E j, k \in jobs :
          /\ get_job_status(j).status = COMPLETED
          /\ get_job_status(k).status = FAILED

(* C10 as claimed: a row whose engine call raised is recorded with status  *)
(* processing_error.                                                       *)
EngineFailureIsProcessingError ==
    \A t \in AllTasks : \A ev \in events :
        (ev.what = "engine_raised" /\ ev.job_id = tasks[t].job_id) =>
            tasks[t].results[ev.row] = SimpleDomainResponse(None, 0, "processing_error", 0)

(* C10 as amended: a row whose engine call raised is recorded with no      *)
(* domain, confidence 0, duration 0 and status "error", and nothing        *)
(* reaches the batch loop's per-row except branch for it.                  *)
EngineFailureIsError ==
    \A t \in AllTasks : \A ev \in events :
        (ev.what = "engine_raised" /\ ev.job_id = tasks[t].job_id) =>
            /\ tasks[t].results[ev.row] = SimpleDomainResponse(None, 0, "error", 0)
            /\ Event(ev.job_id, ev.row, "raised") \notin events
            /\ \A k \in 1..Len(job[ev.job_id].errors) :
                  ~(job[ev.job_id].errors[k].kind = "row" /\ job[ev.job_id].errors[k].n = ev.row)

(* C10 witness: the engine raised for some row. *)
EngineFailureIsErrorWitness == \E ev \in events : ev.what = "engine_raised"

(* ----------------------- the engine's contracts ------------------------ *)
AllCalls == 1..Len(calls)

Searching(c) == calls[c].pc \in {"primary", "fallback"}

(* C11: the engine never raises; when the adjudicator request fails, or    *)
(* its content is not JSON, or is JSON of another shape than the expected  *)
(* object, the engine returns a result without domain and with confidence  *)
(* 0.                                                                      *)
EngineNeverRaises ==
    \A c \in AllCalls :
        /\ ~calls[c].raised
        /\ (calls[c].pc = "done" /\
            calls[c].ai \in {"non200", "transport", "badjson", "nonobject"}) =>
               /\ calls[c].returned
               /\ calls[c].result.primary_domain = None
               /\ calls[c].result.confidence_score = 0

(* C12: an engine call whose searches collected no hit makes no            *)
(* adjudicator request and no probe, and once its searches are over it has *)
(* returned no domain, confidence 0 and status no_domain_found.            *)
NoHitsNoAdjudicator ==
    \A c \in AllCalls :
        calls[c].all_search_results = 0 =>
            /\ calls[c].ai_calls = 0
            /\ calls[c].probes = << >>
            /\ ~Searching(c) =>
                  /\ calls[c].returned
                  /\ calls[c].result.primary_domain = None
                  /\ calls[c].result.confidence_score = 0
                  /\ calls[c].result.verification_status = "no_domain_found"

(* C12 witness: one call ended without hits because its searches answered  *)
(* with empty result lists, another because every endpoint failed.         *)
NoHitsNoAdjudicatorWitness ==
    \E c, d \in AllCalls :
        /\ calls[c].pc = "done" /\ calls[c].all_search_results = 0
        /\ calls[c].exhausted = 0
        /\ calls[d].pc = "done" /\ calls[d].all_search_results = 0
        /\ calls[d].exhausted = Len(search_queries)

(* The status the HTTP probe's outcome decides. *)
StatusByHttp(http) ==
    CASE http = "ok" -> "http_only"
      [] http = "bad" -> "inaccessible"
      [] http = "raise" -> "unreachable"

(* C13: whenever the HTTPS probe failed (raised, timed out, or answered    *)
(* with a status >= 400) an HTTP probe is made and its outcome decides the *)
(* status.                                                                 *)
HttpsFailureTriesHttp ==
    \A c \in AllCalls :
        calls[c].https \in {"bad", "raise"} =>
            /\ calls[c].probes = <<"https", "http">>
            /\ calls[c].returned =>
                  calls[c].result.verification_status = StatusByHttp(calls[c].http)

(* C14: an HTTPS probe answered with a status < 400 gives verified without *)
(* an HTTP probe; an HTTPS probe that raised or timed out gives the status *)
(* the HTTP probe decides (http_only, inaccessible, unreachable); and no   *)
(* outcome of the probes makes the verification raise.                     *)
VerifyDomainOutcomes ==
    \A c \in AllCalls :
        /\ calls[c].https = "ok" =>
              /\ calls[c].probes = <<"https">>
              /\ calls[c].returned
              /\ calls[c].result.verification_status = "verified"
        /\ calls[c].https = "raise" =>
              /\ calls[c].probes = <<"https", "http">>
              /\ calls[c].http # None =>
                    /\ calls[c].returned
                    /\ calls[c].result.verification_status = StatusByHttp(calls[c].http)
        /\ calls[c].probes # << >> => ~calls[c].raised

(* C14 witness: a domain verified over HTTPS, and one reached over HTTP    *)
(* after the HTTPS probe raised.                                           *)
VerifyDomainOutcomesWitness ==
    \E c, d \in AllCalls :
        /\ calls[c].returned /\ calls[c].https = "ok"
        /\ calls[d].returned /\ calls[d].https = "raise" /\ calls[d].http = "ok"

(* C15: the requests of a search call go first to the configured primary   *)
(* endpoint and then, one each, to the fallback endpoints in their         *)
(* configured order; no endpoint gets a second request within the call.    *)
OneRequestPerEndpoint ==
    \A c \in AllCalls :
        Searching(c) =>
            calls[c].sent =
                <<searxng_url>> \o SubSeq(fallback_instances, 1, Len(calls[c].sent) - 1)

(* C16: whenever no search call is suspended inside a fallback attempt,    *)
(* the client's base_url is the configured primary endpoint.               *)
BaseUrlRestored ==
    (\A c \in AllCalls : calls[c].pc # "fallback") => base_url = searxng_url

(* The searches an engine call has finished. *)
Finished(c) == IF Searching(c) THEN calls[c].query - 1 ELSE Len(search_queries)

(* C17: a search whose primary and fallback endpoints all failed adds no   *)
(* hit and raises nothing (an engine call raises only after it has         *)
(* consulted the adjudicator), and the engine call goes on; when every     *)
(* search ended so, the engine returns no domain, confidence 0 and status  *)
(* no_domain_found.                                                        *)
AllEndpointsFailedIsNoEvidence ==
    \A c \in AllCalls :
        /\ calls[c].exhausted <= Finished(c)
        /\ calls[c].all_search_results <= Finished(c) - calls[c].exhausted
        /\ calls[c].raised => calls[c].ai_calls > 0
        /\ (~Searching(c) /\ calls[c].exhausted = Len(search_queries)) =>
              /\ calls[c].returned
              /\ calls[c].result.primary_domain = None
              /\ calls[c].result.confidence_score = 0
              /\ calls[c].result.verification_status = "no_domain_found"

(* C17 witness: a call all of whose searches failed on every endpoint has  *)
(* returned, and a call that lost one search that way has gone on to       *)
(* return a domain.                                                        *)
AllEndpointsFailedIsNoEvidenceWitness ==
    \E c, d \in AllCalls :
        /\ calls[c].returned /\ calls[c].exhausted = Len(search_queries)
        /\ calls[d].returned /\ calls[d].exhausted > 0
        /\ calls[d].result.primary_domain # None

(* ------------------ eviction, rejection, rendering --------------------- *)
(* C18: a sweep cleanup_old_jobs(max_age_hours) takes out of the job table *)
(* exactly the jobs created more than max_age_hours ago, whatever their    *)
(* status, takes their cached artifacts out in the same step, and leaves   *)
(* every other job, its dict and its cached artifact as they were.         *)
EvictionExact ==
    [][\A a \in 0..MaxClock :
          CleanupOldJobs(a) =>
              LET evicted == {j \in jobs : now - job[j].created_at > a}
              IN  /\ jobs' = jobs \ evicted
                  /\ \A j \in jobs : now - job[j].created_at <= a => j \in jobs'
                  /\ DOMAIN results_cache' = DOMAIN results_cache \ evicted
                  /\ \A j \in DOMAIN results_cache' : results_cache'[j] = results_cache[j]
                  /\ job' = job]_vars

(* C18 witness: a completed job has been evicted together with its         *)
(* artifact while a younger completed job is in the table with its         *)
(* artifact.                                                               *)
EvictionExactWitness ==
    \E j, k \in AllJobs :
        /\ j \notin jobs /\ job[j].status = COMPLETED /\ j \notin DOMAIN results_cache
        /\ k \in jobs /\ job[k].status = COMPLETED /\ k \in DOMAIN results_cache
        /\ job[j].created_at < job[k].created_at

(* What makes validate_csv refuse a file. *)
Cause(file_content) ==
    IF file_content.error = "ParserError" THEN "unparseable"
    ELSE IF file_content.error = "EmptyDataError" THEN "zero columns"
    ELSE IF Len(file_content.df.rows) = 0 THEN "zero rows"
    ELSE IF \A k \in 1..Len(file_content.df.columns) :
               /\ \A p \in 1..Len(company_name_patterns) :
                     ~IsSubstr(company_name_patterns[p], Lower(file_content.df.columns[k]))
               /\ ~IsTextColumn(file_content.df, file_content.df.columns[k])
        THEN "no company-name column"
    ELSE IF \A i \in 1..Len(file_content.df.rows) :
               IsNa(file_content.df.rows[i][Detected[file_content.df].company_name])
        THEN "no company name"
    ELSE "none"

Causes ==
    {"unparseable", "zero columns", "zero rows", "no company-name column", "no company name"}

(* The cause of every file, computed once. *)
CauseOf == [f \in Files |-> Cause(f)]

(* A file is refused exactly when a cause applies to it, and files refused *)
(* for different causes get different messages.                            *)
MessagePerCause ==
    /\ \A f \in Files : Validation[f] # "ok" <=> CauseOf[f] \in Causes
    /\ \A f, g \in Files :
          (CauseOf[f] \in Causes /\ CauseOf[g] \in Causes /\ CauseOf[f] # CauseOf[g]) =>
              Validation[f] # Validation[g]

(* C19: a file is refused exactly when one of the five causes applies, the *)
(* messages of different causes differ, and no job and no task exists for  *)
(* a refused file: every job's table passed the validation and every task  *)
(* was started for such a job.                                             *)
RejectedUploadCreatesNothing ==
    /\ MessagePerCause
    /\ \A j \in AllJobs :
          \A f \in Files : f.df = job[j].dataframe => Validation[f] = "ok"
    /\ \A j \in jobs \cup DOMAIN results_cache : j \in AllJobs
    /\ Len(tasks) = Len(job)
    /\ \A t \in AllTasks : tasks[t].job_id = t

(* C19 witness: files of all five causes are refused in a state where no   *)
(* task holds the event loop and the table and the cache hold a job.       *)
RejectedUploadCreatesNothingWitness ==
    /\ running = 0
    /\ \E j \in jobs : j \in DOMAIN results_cache
    /\ \A c \in Causes : \E f \in Files : CauseOf[f] = c /\ ENABLED UploadRejected(f)

(* The result process_job records for row i of job j. *)
ResultFits(j, i, result) ==
    LET df == job[j].dataframe
        cell == df.rows[i][job[j].detected_columns.company_name]
        location_col == job[j].detected_columns.location
        location == IF location_col # NoColumn
                       THEN prepare_location_string(df.rows[i], location_col, df)
                       ELSE NoLocation
    IN  IF IsEmptyName(cell)
            THEN result = EmptyInputResult
        ELSE IF Event(j, i, "raised") \in events
            THEN result = ProcessingErrorResult
        ELSE /\ \E o \in RowOracles :
                   result = process_single_row(Strip(Str(cell)), location, o)
             /\ Event(j, i, "process_single_row") \in events

(* C20: for a completed job, the results rendered are one per input row,   *)
(* the i-th being the result recorded for the i-th row (the placeholder of *)
(* an empty name, the placeholder of a failed row, or what the row         *)
(* enricher returned), and the cached artifact has, after its header, one  *)
(* line per input row, in input order, each with its row's result.         *)
OutputAligned ==
    \A j \in AllJobs :
        job[j].status = COMPLETED =>
            \E t \in AllTasks :
                /\ tasks[t].job_id = j
                /\ Len(tasks[t].results) = Len(job[j].dataframe.rows)
                /\ \A i \in 1..Len(job[j].dataframe.rows) :
                      ResultFits(j, i, tasks[t].results[i])
                /\ j \in DOMAIN results_cache =>
                      /\ Len(results_cache[j]) = Len(job[j].dataframe.rows) + 1
                      /\ \A i \in 1..Len(job[j].dataframe.rows) :
                            /\ results_cache[j][i + 1].row = job[j].dataframe.rows[i]
                            /\ results_cache[j][i + 1].result = tasks[t].results[i]

(* C20 witness: a cached artifact of two rows, the first with a missing    *)
(* name and the second enriched.                                           *)
OutputAlignedWitness ==
    \E j \in DOMAIN results_cache :
        /\ job[j].status = COMPLETED
        /\ job[j].dataframe.rows = <<Row(NaN, LocCell), Row(NameCell, LocCell)>>
        /\ results_cache[j][3].result.primary_domain # None

(* ------------------------ concurrent jobs ------------------------------ *)
(* What a caller can see of job j: its dict, its result list and its       *)
(* cached artifact.                                                        *)
JobView(j) ==
    [job |-> job[j],
     results |-> JobResults(j),
     cached |-> IF j \in DOMAIN results_cache THEN results_cache[j] ELSE NoCsv]

(* C21: a step of a process_job task leaves the status, progress, result   *)
(* list, error list, completed_at and cached artifact of every job other   *)
(* than its own as they were.                                              *)
JobsIsolated ==
    [][\A t \in AllTasks :
          tasks'[t] # tasks[t] =>
              \A b \in AllJobs \ {tasks[t].job_id} : JobView(b)' = JobView(b)]_vars

(* C21 witness: two tasks are suspended, each in the enrichment of a row   *)
(* of its own job, each job with a counted row already.                    *)
JobsIsolatedWitness ==
    \E t, u \in AllTasks :
        /\ tasks[t].job_id # tasks[u].job_id
        /\ tasks[t].pc = "await" /\ tasks[t].index = 1
        /\ tasks[u].pc = "await" /\ tasks[u].index = 1

(* ------------------- the CSVProcessor's functions ---------------------- *)
HasColumnLike(df, pattern) == Matches(df.columns, pattern) # {}

FirstColumnLike(df, patterns) ==
    df.columns[Min(UNION {Matches(df.columns, p) : p \in patterns})]

(* The city and the state of a row, each left out when missing. *)
CityAndState(df, row) ==
    LET city == row[FirstColumnLike(df, {<<"c", "i", "t", "y">>})]
        state == row[FirstColumnLike(df, StatePatterns)]
    IN  (IF IsNa(city) THEN << >> ELSE <<Strip(Str(city))>>) \o
        (IF IsNa(state) THEN << >> ELSE <<Strip(Str(state))>>)

(* C22: for a table with a city column and a state column and no location  *)
(* or address column, detect_columns reports the synthetic combined        *)
(* location, and prepare_location_string gives for each row its city and   *)
(* its state, joined by ", ", each left out when missing, and no location  *)
(* when both are missing.                                                  *)
CityStateCombined ==
    applied.fn = "detect_columns" =>
        LET df == applied.df
        IN  ( /\ HasColumnLike(df, <<"c", "i", "t", "y">>)
              /\ \E p \in StatePatterns : HasColumnLike(df, p)
              /\ ~HasColumnLike(df, <<"l", "o", "c", "a", "t", "i", "o", "n">>)
              /\ ~HasColumnLike(df, <<"a", "d", "d", "r", "e", "s", "s">>) ) =>
                /\ applied.detected.location = combined_location
                /\ \A i \in 1..Len(df.rows) :
                      applied.locations[i] =
                          IF CityAndState(df, df.rows[i]) = << >>
                             THEN NoLocation ELSE CityAndState(df, df.rows[i])

(* An absent, empty or whitespace-only location string. *)
IsBlank(location_str) ==
    location_str = NoString \/ \A k \in 1..Len(location_str) : location_str[k] = " "

(* C23: parse_location gives Unknown, Unknown, US for an absent or blank    *)
(* string; for one part the part as city with state Unknown and country US; *)
(* for two or more parts the first as city, the second as state and the     *)
(* third, if any, as country, else US.                                      *)
ParseLocationMapping ==
    applied.fn = "parse_location" =>
        LET location_str == applied.location_str
            parts == [k \in 1..Len(SplitComma(location_str)) |->
                         StripText(SplitComma(location_str)[k])]
        IN  applied.address =
               IF IsBlank(location_str) THEN CompanyAddress(Unknown, Unknown, US)
               ELSE IF Len(parts) = 1 THEN CompanyAddress(parts[1], Unknown, US)
               ELSE CompanyAddress(parts[1], parts[2],
                                   IF Len(parts) > 2 THEN parts[3] ELSE US)

(* C25: detect_columns on the rendered table of a valid table reports the  *)
(* company-name column it reports on the table itself.                     *)
CompanyColumnSurvivesRendering ==
    applied.fn = "prepare_output_csv" =>
        applied.detected_again.company_name = applied.detected.company_name

(* ------------------------ results of the engine ------------------------ *)
(* C24: the confidence score of every result the engine returns, and so of *)
(* the row result copied from it, lies between 0 and 1 (0 and 100          *)
(* hundredths), whatever the adjudicator answered.                         *)
ConfidenceInRange ==
    \A c \in AllCalls :
        calls[c].returned =>
            /\ calls[c].result.confidence_score >= 0
            /\ calls[c].result.confidence_score <= 100

(* ------------------------------ progress ------------------------------- *)
(* The tasks that handle a row of job j in this step: the loop index moves *)
(* to the next row and one result is appended to the task's list.          *)
RowStatuses ==
    {"verified", "http_only", "inaccessible", "unreachable", "no_domain_found",
     "error", "empty_input", "processing_error"}

Handling(j) ==
    {t \in 1..Len(tasks) :
        /\ tasks[t].job_id = j
        /\ tasks'[t].index = tasks[t].index + 1
        /\ Len(tasks'[t].results) = Len(tasks[t].results) + 1
        /\ tasks'[t].results[tasks'[t].index].verification_status \in RowStatuses}

(* C26: the progress of a job starts at 0, moves in a step by exactly the  *)
(* number of rows handled in that step (one at most, so it never           *)
(* decreases), never exceeds total, and equals total once the job is       *)
(* completed.                                                              *)
ProgressCountsRows ==
    [][ \A j \in 1..Len(job') :
           /\ IF j > Len(job)
                 THEN job'[j].progress = 0
                 ELSE /\ job'[j].progress = job[j].progress + Cardinality(Handling(j))
                      /\ Cardinality(Handling(j)) <= 1
           /\ job'[j].progress <= job'[j].total
           /\ job'[j].status = COMPLETED => job'[j].progress = job'[j].total ]_vars

ProgressCountsRowsWitness ==
    \E t \in 1..Len(tasks) :
        LET j == tasks[t].job_id
        IN  /\ job[j].status = COMPLETED
            /\ job[j].total = MaxRows
            /\ job[j].progress = MaxRows
            /\ \E i \in 1..MaxRows : tasks[t].results[i].verification_status = "empty_input"
            /\ \E i \in 1..MaxRows : tasks[t].results[i].verification_status = "verified"

(* C27: the rows of a job are enriched one after the other in input order: *)
(* when the enrichment of row i starts, every earlier row has its result   *)
(* appended and counted in progress, no enrichment of the job is pending,  *)
(* and no later row was started before.                                    *)
RowsSequential ==
    [][ \A ev \in events' \ events :
           ev.what = "process_single_row" =>
              /\ job[ev.job_id].progress = ev.row - 1
              /\ \A t \in 1..Len(tasks) :
                    tasks[t].job_id = ev.job_id /\ tasks[t].pc # "scheduled" =>
                       /\ tasks[t].pc # "await"
                       /\ Len(tasks[t].results) = ev.row - 1
              /\ \A old \in events :
                    old.job_id = ev.job_id /\ old.what = "process_single_row" =>
                       old.row < ev.row ]_vars

RowsSequentialWitness ==
    \E j \in jobs :
        /\ Event(j, 1, "process_single_row") \in events
        /\ Event(j, 2, "process_single_row") \in events
        /\ job[j].progress >= 1

(* ----------------------------- termination ----------------------------- *)
Terminal(t) ==
    /\ tasks[t].pc = "done"
    /\ job[tasks[t].job_id].status \in {COMPLETED, FAILED}

(* C28 as stated: every job whose background task was started eventually   *)
(* is completed or failed, the task having returned.                       *)
StartedJobTerminates ==
    \A t \in 1..MaxTasks : (t <= Len(tasks)) ~> (t <= Len(tasks) /\ Terminal(t))

(* C28: every job that is in the table when its background task first runs *)
(* eventually is completed or failed, the task having returned; a task     *)
(* that finds its job gone returns at once and leaves it pending.          *)
EnteredJobTerminates ==
    \A t \in 1..MaxTasks :
        (t <= Len(tasks) /\ tasks[t].pc \notin {"scheduled", "done"})
            ~> (t <= Len(tasks) /\ Terminal(t))

EnteredJobTerminatesWitness ==
    /\ Len(tasks) = MaxTasks
    /\ \A t \in 1..MaxTasks : Terminal(t)
    /\ \E t \in 1..MaxTasks : job[tasks[t].job_id].status = COMPLETED
    /\ \E t \in 1..MaxTasks : job[tasks[t].job_id].status = FAILED

(* --------------------- the cache and the job table --------------------- *)
(* C29: every job id with an entry in the results cache is in the job      *)
(* table, also when the job was evicted while its task was suspended.      *)
CachedJobsInTable == DOMAIN results_cache \subseteq jobs

(* ------------------- concurrent searches on one client ----------------- *)
(* C30: a search call that starts (sends its first request) while another  *)
(* call's search is suspended inside a fallback attempt sends that request *)
(* to the configured primary endpoint.                                     *)
FirstRequestToPrimaryDuringFallback ==
    [][ \A d \in 1..Len(calls') :
           ( /\ calls'[d].pc = "primary"
             /\ Len(calls'[d].sent) = 1
             /\ (d > Len(calls) \/ calls'[d] # calls[d])
             /\ \E c \in 1..Len(calls) :
                   c # d /\ calls[c].pc = "fallback" /\ calls'[c] = calls[c] )
           => calls'[d].sent[1] = searxng_url ]_vars

(* ------------------- the status and the domain ------------------------- *)
(* C31: a result of the engine has status no_domain_found exactly when its *)
(* primary_domain is null, and a result that names a domain has one of the *)
(* four verification statuses.                                             *)
NoDomainFoundIffNull ==
    \A c \in AllCalls :
        calls[c].returned =>
            /\ calls[c].result.verification_status = "no_domain_found"
                  <=> calls[c].result.primary_domain = None
            /\ calls[c].result.primary_domain # None =>
                  calls[c].result.verification_status \in
                      {"verified", "http_only", "inaccessible", "unreachable"}

(* --------------------------- company names ----------------------------- *)
(* C32: normalize_company_name is idempotent on a base name followed by    *)
(* suffix words: normalizing what it returned returns the same name.       *)
NormalizeIdempotent ==
    (applied # Idle /\ applied.fn = "normalize_company_name twice") =>
        applied.again = applied.normalized

====
